---- MODULE Spec2Model ----
(***************************************************************************)
(* Model of mqttparse (src/lib.rs): the two length-prefixed decoders       *)
(* parse_string and parse_len_prefixed_bytes, and QoS::from_u8.            *)
(*                                                                         *)
(* A byte buffer is a sequence of integers 0..255.  A Rust string is a     *)
(* sequence of Unicode scalar values; its in-memory form is the UTF-8      *)
(* byte sequence as_bytes(s).  A call's outcome is a tagged record:        *)
(* Ok(Status::Partial), Ok(Status::Complete(v)), Err(e), or a panic.       *)
(***************************************************************************)
EXTENDS Integers, Sequences, FiniteSets, TLC

VARIABLES buffer, inp, overflow_checks, strRes, bytRes, oldStr, oldByt, qos, qosRes

vars == <<buffer, inp, overflow_checks, strRes, bytRes, oldStr, oldByt, qos, qosRes>>

(***************************************************************************)
(* Integer widths.                                                         *)
(***************************************************************************)
\* u16 values are 0 .. U16Mod - 1
U16Mod == 65536

U16Max == U16Mod - 1

(***************************************************************************)
(* Outcomes.                                                               *)
(***************************************************************************)
NotCalled == [tag |-> "NotCalled"]

Partial == [tag |-> "Partial"]

Complete(v) == [tag |-> "Complete", val |-> v]

Err(e) == [tag |-> "Err", err |-> e]

Panic(m) == [tag |-> "Panic", msg |-> m]

(***************************************************************************)
(* UTF-8, as the strict decoder of core::str behaves.                      *)
(***************************************************************************)
IsCont(b) == b \in 128..191

\* width of the sequence a first byte announces, 0 for a byte that starts none
utf8_char_width(b) ==
    IF b \in 0..127 THEN 1
    ELSE IF b \in 194..223 THEN 2
    ELSE IF b \in 224..239 THEN 3
    ELSE IF b \in 240..244 THEN 4
    ELSE 0

\* the byte k places after position i, or -1 past the end
ByteAfter(v, i, k) == IF i + k <= Len(v) THEN v[i + k] ELSE -1

\* a well-formed sequence starts at position i (the first byte is no continuation)
SeqOK(v, i) ==
    LET first == v[i]
        w == utf8_char_width(first)
        b1 == ByteAfter(v, i, 1)
        b2 == ByteAfter(v, i, 2)
        b3 == ByteAfter(v, i, 3)
    IN  CASE w = 1 -> TRUE
          [] w = 2 -> IsCont(b1)
          [] w = 3 -> /\ \/ first = 224 /\ b1 \in 160..191
                         \/ first \in 225..236 /\ b1 \in 128..191
                         \/ first = 237 /\ b1 \in 128..159
                         \/ first \in 238..239 /\ b1 \in 128..191
                      /\ IsCont(b2)
          [] w = 4 -> /\ \/ first = 240 /\ b1 \in 144..191
                         \/ first \in 241..243 /\ b1 \in 128..191
                         \/ first = 244 /\ b1 \in 128..143
                      /\ IsCont(b2)
                      /\ IsCont(b3)
          [] OTHER -> FALSE

\* the continuation byte at position i belongs to a sequence begun just before it
ContinuationCovered(v, i) ==
    \E k \in 1..3 :
        /\ i - k >= 1
        /\ utf8_char_width(v[i - k]) > k
        /\ \A j \in 1..(k - 1) : IsCont(v[i - j])

\* str::from_utf8(v).is_ok(): v splits into well-formed sequences
ValidUtf8(v) ==
    \A i \in 1..Len(v) : IF IsCont(v[i]) THEN ContinuationCovered(v, i) ELSE SeqOK(v, i)

\* the scalar value of the sequence starting at position i of valid UTF-8
DecodeAt(v, i) ==
    LET w == utf8_char_width(v[i])
    IN  CASE w = 1 -> v[i]
          [] w = 2 -> (v[i] - 192) * 64 + (v[i + 1] - 128)
          [] w = 3 -> (v[i] - 224) * 4096 + (v[i + 1] - 128) * 64 + (v[i + 2] - 128)
          [] OTHER -> (v[i] - 240) * 262144 + (v[i + 1] - 128) * 4096
                      + (v[i + 2] - 128) * 64 + (v[i + 3] - 128)

\* the last sequence start at or before position m
StartAtOrBefore(v, m) ==
    IF ~IsCont(v[m]) THEN m
    ELSE IF ~IsCont(v[m - 1]) THEN m - 1
    ELSE IF ~IsCont(v[m - 2]) THEN m - 2
    ELSE m - 3

RECURSIVE CharsRange(_, _, _)
\* the scalar values of v[lo..hi], a range of whole sequences of valid UTF-8
CharsRange(v, lo, hi) ==
    IF lo > hi THEN << >>
    ELSE LET w == utf8_char_width(v[lo])
         IN  IF lo + w > hi THEN << DecodeAt(v, lo) >>
             ELSE LET m0 == StartAtOrBefore(v, (lo + hi + 1) \div 2)
                      m == IF m0 <= lo THEN lo + w ELSE m0
                  IN  CharsRange(v, lo, m - 1) \o CharsRange(v, m, hi)

\* val.chars(), collected; in ASCII text every byte is its own scalar value
chars(v) == IF \A i \in 1..Len(v) : v[i] < 128 THEN v ELSE CharsRange(v, 1, Len(v))

\* str::from_utf8
from_utf8(v) == IF ValidUtf8(v) THEN [ok |-> TRUE, val |-> chars(v)] ELSE [ok |-> FALSE]

\* char::encode_utf8
encode_utf8(c) ==
    IF c < 128 THEN << c >>
    ELSE IF c < 2048 THEN << 192 + (c \div 64), 128 + (c % 64) >>
    ELSE IF c < 65536
         THEN << 224 + (c \div 4096), 128 + ((c \div 64) % 64), 128 + (c % 64) >>
         ELSE << 240 + (c \div 262144), 128 + ((c \div 4096) % 64),
                 128 + ((c \div 64) % 64), 128 + (c % 64) >>

RECURSIVE EncodeRange(_, _, _)
\* the UTF-8 encoding of s[lo..hi]
EncodeRange(s, lo, hi) ==
    IF lo > hi THEN << >>
    ELSE IF lo = hi THEN encode_utf8(s[lo])
    ELSE LET m == (lo + hi) \div 2
         IN  EncodeRange(s, lo, m) \o EncodeRange(s, m + 1, hi)

\* str::as_bytes: the UTF-8 encoding of a string; ASCII text is its own encoding
as_bytes(s) == IF \A i \in 1..Len(s) : s[i] < 128 THEN s ELSE EncodeRange(s, 1, Len(s))

(***************************************************************************)
(* byteorder::BigEndian                                                    *)
(***************************************************************************)
read_u16(b) == 256 * b[1] + b[2]

write_u16(n) == << n \div 256, n % 256 >>

\* `n as u16`
as_u16(n) == n % U16Mod

(***************************************************************************)
(* u16 addition and slice indexing, with their panics.                     *)
(***************************************************************************)
\* a + b on u16: panics when overflow checks are compiled in, wraps otherwise
add_u16(a, b, oc) ==
    IF a + b > U16Max /\ oc
    THEN Panic("attempt to add with overflow")
    ELSE [tag |-> "Value", val |-> (a + b) % U16Mod]

\* &b[start..end]
slice(b, start, end) ==
    IF start > end THEN Panic("slice index starts after end")
    ELSE IF end > Len(b) THEN Panic("range end index out of range")
    ELSE [tag |-> "Slice", val |-> SubSeq(b, start + 1, end)]

(***************************************************************************)
(* The decoders.                                                           *)
(***************************************************************************)
\* parse_string decoding everything after the prefix instead of bytes[2..len + 2]
parse_string_whole_rest(b, oc) ==
    IF Len(b) < 2 THEN Partial
    ELSE LET len == read_u16(b)
         IN  IF Len(b) - 2 < len THEN Partial
             ELSE LET val == from_utf8(SubSeq(b, 3, Len(b)))
                  IN  IF ~val.ok THEN Err("Utf8")
                      ELSE IF \E i \in 1..Len(val.val) : val.val[i] = 0
                           THEN Err("Utf8")
                           ELSE Complete(val.val)

\* parse_string decoding lossily: an ill-formed payload becomes U+FFFD
parse_string_lossy(b, oc) ==
    IF Len(b) < 2 THEN Partial
    ELSE LET len == read_u16(b)
         IN  IF Len(b) - 2 < len THEN Partial
             ELSE LET end == add_u16(len, 2, oc)
                  IN  IF end.tag = "Panic" THEN end
                      ELSE LET sl == slice(b, 2, end.val)
                           IN  IF sl.tag = "Panic" THEN sl
                               ELSE LET val == from_utf8(sl.val)
                                    IN  IF ~val.ok THEN Complete(<< 65533 >>)
                                        ELSE IF \E i \in 1..Len(val.val) : val.val[i] = 0
                                             THEN Err("Utf8")
                                             ELSE Complete(val.val)

parse_string(b, oc) ==
    IF Len(b) < 2 THEN Partial
    ELSE LET len == read_u16(b)
         IN  IF Len(b) - 2 < len THEN Partial
             ELSE LET end == add_u16(len, 2, oc)
                  IN  IF end.tag = "Panic" THEN end
                      ELSE LET sl == slice(b, 2, end.val)
                           IN  IF sl.tag = "Panic" THEN sl
                               ELSE LET val == from_utf8(sl.val)
                                    IN  IF ~val.ok THEN Err("Utf8")
                                        ELSE IF \E i \in 1..Len(val.val) : val.val[i] = 0
                                             THEN Err("Utf8")
                                             ELSE Complete(val.val)

\* parse_len_prefixed_bytes comparing bytes.len() with len, the prefix forgotten
parse_len_prefixed_bytes_no_header(b, oc) ==
    IF Len(b) < 2 THEN Partial
    ELSE LET len == read_u16(b)
         IN  IF Len(b) < len THEN Partial
             ELSE LET end == add_u16(len, 2, oc)
                  IN  IF end.tag = "Panic" THEN end
                      ELSE LET sl == slice(b, 2, end.val)
                           IN  IF sl.tag = "Panic" THEN sl
                               ELSE Complete(sl.val)

\* parse_len_prefixed_bytes with <= in the partiality check
parse_len_prefixed_bytes_off_by_one(b, oc) ==
    IF Len(b) < 2 THEN Partial
    ELSE LET len == read_u16(b)
         IN  IF Len(b) - 2 <= len THEN Partial
             ELSE LET end == add_u16(len, 2, oc)
                  IN  IF end.tag = "Panic" THEN end
                      ELSE LET sl == slice(b, 2, end.val)
                           IN  IF sl.tag = "Panic" THEN sl
                               ELSE Complete(sl.val)

parse_len_prefixed_bytes(b, oc) ==
    IF Len(b) < 2 THEN Partial
    ELSE LET len == read_u16(b)
         IN  IF Len(b) - 2 < len THEN Partial
             ELSE LET end == add_u16(len, 2, oc)
                  IN  IF end.tag = "Panic" THEN end
                      ELSE LET sl == slice(b, 2, end.val)
                           IN  IF sl.tag = "Panic" THEN sl
                               ELSE Complete(sl.val)

\* from_u8 taking the low two bits of qos
from_u8_masked(q) ==
    CASE q % 4 = 0 -> [tag |-> "Ok", val |-> "AtMostOnce"]
      [] q % 4 = 1 -> [tag |-> "Ok", val |-> "AtLeastOnce"]
      [] q % 4 = 2 -> [tag |-> "Ok", val |-> "ExactlyOnce"]
      [] OTHER -> Err("InvalidQoS")

from_u8(q) ==
    CASE q = 0 -> [tag |-> "Ok", val |-> "AtMostOnce"]
      [] q = 1 -> [tag |-> "Ok", val |-> "AtLeastOnce"]
      [] q = 2 -> [tag |-> "Ok", val |-> "ExactlyOnce"]
      [] OTHER -> Err("InvalidQoS")

(***************************************************************************)
(* Inputs.                                                                 *)
(***************************************************************************)
Fill(c, n) == << >> \o [i \in 1..n |-> c]

\* U+0000, 'a', U+00E9, U+FEFF, U+1F496: one scalar value of each encoded width,
\* the NUL the protocol forbids and the byte-order mark it keeps
CodePoints == {0, 97, 233, 65279, 128150}

\* longest short string, in scalar values
MaxStrLen == 2

ShortStrs == UNION {[1..n -> CodePoints] : n \in 0..MaxStrLen}

\* strings whose encoded length is at the top of the u16 range
LongStrs == {Fill(97, n) : n \in (U16Max - 2)..U16Max}

Strs == ShortStrs \cup LongStrs

\* raw payloads: the test's [0,159,146,150], a lone 0xFF, an encoded surrogate,
\* a truncated sequence, an overlong NUL, text followed by 0xFF, and a truncated
\* 4-byte sequence
Payloads ==
    { << 0, 159, 146, 150 >>, << 255 >>, << 237, 160, 128 >>, << 195 >>,
      << 192, 128 >>, << 97, 255 >>, << 240, 159, 146 >> }

\* bytes that arrive one at a time into a buffer built from nothing
RawBytes == {0, 2, 97, 169, 195, 255}

\* longest buffer built one byte at a time
MaxRawLen == 4

\* bytes that arrive after the first read of an encoded value
TailBytes == {0, 97, 255}

\* most bytes that arrive after the first read of an encoded value
MaxTail == 2

\* most bytes of an encoded value that its first read leaves out
MaxCut == 1

\* most bytes one read returns
ChunkMax == U16Max

\* the lengths the first read of an encoding of e bytes can have
FirstReads(e) ==
    {IF e - d < ChunkMax THEN e - d ELSE ChunkMax : d \in 0..(IF e < MaxCut THEN e ELSE MaxCut)}

(***************************************************************************)
(* Packed sequences.  The state holds every sequence with its long run of  *)
(* one repeated value written as a count: pre, then n times fill, then     *)
(* post.  Unpack gives the sequence itself, and every operation works on   *)
(* that; Pack is the one packed form of a sequence.                        *)
(***************************************************************************)
\* sequences at least this long are packed around their middle run
PackFrom == U16Max \div 2

Plain(s) == [pre |-> s, fill |-> 0, n |-> 0, post |-> << >>]

Pack(s) ==
    IF Len(s) < PackFrom THEN Plain(s)
    ELSE LET mid == Len(s) \div 2
             c == s[mid]
             before == {j \in 1..mid : s[j] # c}
             after == {j \in mid..Len(s) : s[j] # c}
             lo == IF before = {} THEN 1
                   ELSE 1 + CHOOSE j \in before : \A k \in before : k <= j
             hi == IF after = {} THEN Len(s)
                   ELSE (CHOOSE j \in after : \A k \in after : j <= k) - 1
         IN  [pre |-> SubSeq(s, 1, lo - 1), fill |-> c, n |-> hi - lo + 1,
              post |-> SubSeq(s, hi + 1, Len(s))]

Unpack(p) == p.pre \o Fill(p.fill, p.n) \o p.post

\* Len(Unpack(p))
PackedLen(p) == Len(p.pre) + p.n + Len(p.post)

\* an outcome as the state holds it
Held(r) == IF r.tag = "Complete" THEN Complete(Pack(r.val)) ELSE r

(***************************************************************************)
(* State: the caller's buffer (packed), the value it was built from, the   *)
(* build's overflow-check setting, the outcome of each decoder on the      *)
(* current buffer, and the outcome each decoder gave on the buffer as it   *)
(* was before the last write.                                              *)
(***************************************************************************)
\* the caller's buffer
bytes == Unpack(buffer)

\* the buffer was built byte by byte, not from an encoded value
Raw == [kind |-> "raw", val |-> Plain(<< >>), len |-> 0, first |-> 0]

Init ==
    /\ buffer = Plain(<< >>)
    /\ inp = Raw
    /\ overflow_checks \in BOOLEAN
    /\ strRes = NotCalled
    /\ bytRes = NotCalled
    /\ oldStr = NotCalled
    /\ oldByt = NotCalled
    /\ qos = 0
    /\ qosRes = NotCalled

\* the caller has decoded the buffer it holds
Decoded == strRes # NotCalled /\ bytRes # NotCalled

\* more is written into the buffer: the results borrowed from the old buffer
\* are given up
Rebuffer(b) ==
    /\ buffer' = Pack(b)
    /\ oldStr' = strRes
    /\ oldByt' = bytRes
    /\ strRes' = NotCalled
    /\ bytRes' = NotCalled
    /\ UNCHANGED <<overflow_checks, qos, qosRes>>

\* write_u16(p.len() as u16); write(p)
Encoding(p) == write_u16(as_u16(Len(p))) \o p

\* the encoding of a string is sent; its first k bytes arrive
EncodeStr ==
    /\ Decoded
    /\ buffer = Plain(<< >>)
    /\ inp = Raw
    /\ \E s \in Strs :
        LET p == as_bytes(s)
        IN  \E k \in FirstReads(2 + Len(p)) :
                /\ inp' = [kind |-> "str", val |-> Pack(s), len |-> Len(p), first |-> k]
                /\ Rebuffer(SubSeq(Encoding(p), 1, k))

\* the encoding of a raw payload is sent; its first k bytes arrive
EncodeBytes ==
    /\ Decoded
    /\ buffer = Plain(<< >>)
    /\ inp = Raw
    /\ \E p \in Payloads :
        \E k \in FirstReads(2 + Len(p)) :
            /\ inp' = [kind |-> "bytes", val |-> Pack(p), len |-> Len(p), first |-> k]
            /\ Rebuffer(SubSeq(Encoding(p), 1, k))

\* one more byte arrives
Grow(c) ==
    /\ Decoded
    /\ IF inp = Raw
       THEN c \in RawBytes /\ PackedLen(buffer) < MaxRawLen
       ELSE c \in TailBytes /\ PackedLen(buffer) < inp.first + MaxTail
    /\ UNCHANGED inp
    /\ Rebuffer(Append(bytes, c))

CallParseString ==
    /\ strRes = NotCalled
    /\ strRes' = Held(parse_string(bytes, overflow_checks))
    /\ UNCHANGED <<buffer, inp, overflow_checks, bytRes, oldStr, oldByt, qos, qosRes>>

CallParseLenPrefixedBytes ==
    /\ bytRes = NotCalled
    /\ bytRes' = Held(parse_len_prefixed_bytes(bytes, overflow_checks))
    /\ UNCHANGED <<buffer, inp, overflow_checks, strRes, oldStr, oldByt, qos, qosRes>>

CallFromU8(q) ==
    /\ qos' = q
    /\ qosRes' = from_u8(q)
    /\ UNCHANGED <<buffer, inp, overflow_checks, strRes, bytRes, oldStr, oldByt>>

Next ==
    \/ EncodeStr
    \/ EncodeBytes
    \/ \E c \in RawBytes \cup TailBytes : Grow(c)
    \/ CallParseString
    \/ CallParseLenPrefixedBytes

Spec == Init /\ [][Next]_vars

\* u8::MAX
U8Max == 255

NextQoS == \E q \in 0..U8Max : CallFromU8(q)

SpecQoS == Init /\ [][NextQoS]_vars

(***************************************************************************)
(* Properties.                                                             *)
(***************************************************************************)
\* the buffer holds a length prefix
HasPrefix == Len(bytes) >= 2

\* the buffer holds a length prefix and all the bytes it announces
PrefixCovered == HasPrefix /\ read_u16(bytes) <= Len(bytes) - 2

\* bytes[2..2+len]
Payload == SubSeq(bytes, 3, 2 + read_u16(bytes))

\* everything after the prefix
Rest == SubSeq(bytes, 3, Len(bytes))

\* C1: a buffer shorter than 2 bytes, or whose prefix announces more bytes than
\* follow it, makes both decoders return Ok(Status::Partial), whatever the
\* bytes present are.
C1_TruncatedIsPartial ==
    ~PrefixCovered => /\ strRes \in {NotCalled, Partial}
                 /\ bytRes \in {NotCalled, Partial}

\* both decoders ran on a truncated buffer whose payload so far is ill-formed
C1_Witness ==
    /\ HasPrefix /\ ~PrefixCovered
    /\ Len(bytes) > 2 /\ ~ValidUtf8(Rest)
    /\ strRes = Partial /\ bytRes = Partial

\* C2: for every len in 0..65535 and every buffer of exactly 2 + len bytes whose
\* prefix encodes len, parse_len_prefixed_bytes returns Complete(bytes[2..2+len]).
C2_ExactBufferCompletes ==
    (bytRes # NotCalled /\ HasPrefix /\ Len(bytes) = 2 + read_u16(bytes))
        => bytRes = Held(Complete(Rest))

\* C3: once a decoder has returned Complete(v) or an Err for a buffer, it returns
\* the same outcome for that buffer with further bytes appended.
C3_Monotone ==
    /\ (oldStr.tag \in {"Complete", "Err"} /\ strRes # NotCalled) => strRes = oldStr
    /\ (oldByt.tag \in {"Complete", "Err"} /\ bytRes # NotCalled) => bytRes = oldByt

\* both decoders completed, the buffer grew, and both were called again
C3_Witness ==
    /\ oldStr.tag = "Complete" /\ strRes = oldStr
    /\ oldByt.tag = "Complete" /\ bytRes = oldByt
    /\ Len(bytes) > 2 + read_u16(bytes)

\* C4 as stated: whenever the bytes after the prefix are not valid UTF-8,
\* parse_string returns Err(Utf8), whatever the prefix.
C4_InvalidRestIsErr ==
    (strRes # NotCalled /\ HasPrefix /\ ~ValidUtf8(Rest)) => strRes = Err("Utf8")

\* C4 amended: when the buffer holds all len bytes the prefix announces and
\* bytes[2..2+len] is not valid UTF-8, parse_string returns neither Partial nor
\* Complete: it returns Err(Utf8) for len <= 65533 and panics on len + 2 for
\* len = 65534 and 65535.
C4_InvalidPayloadIsErr ==
    (strRes # NotCalled /\ PrefixCovered /\ ~ValidUtf8(Payload))
        => IF read_u16(bytes) + 2 <= U16Max
           THEN strRes = Err("Utf8")
           ELSE strRes.tag = "Panic"

\* parse_string rejected a complete payload that is not valid UTF-8
C4_Witness ==
    /\ PrefixCovered /\ read_u16(bytes) > 0
    /\ ~ValidUtf8(Payload)
    /\ strRes = Err("Utf8")

\* C5: the encoding of a string free of U+0000, of encoded length n <= 65535,
\* is decoded by parse_string to Complete of the same string.
C5_RoundTrip ==
    (/\ strRes # NotCalled
     /\ inp.kind = "str"
     /\ LET s == Unpack(inp.val) IN \A i \in 1..Len(s) : s[i] # 0
     /\ inp.len <= U16Max
     /\ bytes = Encoding(as_bytes(Unpack(inp.val))))
        => strRes = Held(Complete(Unpack(inp.val)))

\* C6: the outcome of parse_len_prefixed_bytes is always Ok(Partial) or
\* Ok(Complete(..)).
C6_BytesNeverFails == bytRes.tag \in {"NotCalled", "Partial", "Complete"}

\* C7: a complete payload that is valid UTF-8 and contains U+0000 makes
\* parse_string return Err(Utf8).
C7_NulIsErr ==
    (/\ strRes # NotCalled
     /\ PrefixCovered
     /\ ValidUtf8(Payload)
     /\ LET cs == chars(Payload) IN \E i \in 1..Len(cs) : cs[i] = 0)
        => strRes = Err("Utf8")

\* C8: from_u8 maps 0, 1, 2 to AtMostOnce, AtLeastOnce, ExactlyOnce and every
\* value of 3..255 to Err(InvalidQoS); distinct valid inputs give distinct variants.
C8_FromU8Total ==
    /\ qosRes # NotCalled =>
        /\ qos = 0 => qosRes = [tag |-> "Ok", val |-> "AtMostOnce"]
        /\ qos = 1 => qosRes = [tag |-> "Ok", val |-> "AtLeastOnce"]
        /\ qos = 2 => qosRes = [tag |-> "Ok", val |-> "ExactlyOnce"]
        /\ qos \in 3..U8Max => qosRes = Err("InvalidQoS")
    /\ \A a, b \in 0..2 : a # b => from_u8(a) # from_u8(b)

\* from_u8 rejected the largest u8
C8_Witness == qos = U8Max /\ qosRes = Err("InvalidQoS")

\* C9: for every prefix len that passes the partiality check, the 16-bit sum
\* len + 2 equals the mathematical len + 2 and bytes[2..len+2] is in bounds.
C9_NoOverflow ==
    ((strRes # NotCalled \/ bytRes # NotCalled) /\ PrefixCovered)
        => LET end == add_u16(read_u16(bytes), 2, overflow_checks)
           IN  /\ end.tag = "Value"
               /\ end.val = read_u16(bytes) + 2
               /\ 2 <= end.val /\ end.val <= Len(bytes)
               /\ strRes.tag # "Panic" /\ bytRes.tag # "Panic"

\* C10: parse_string is Partial exactly when parse_len_prefixed_bytes is; when
\* it is Complete(s) the byte decoder is Complete(UTF-8 bytes of s); otherwise
\* the two outcomes are the same, or parse_string turned a Complete into Err(Utf8).
C10_DecodersAgree ==
    (strRes # NotCalled /\ bytRes # NotCalled) =>
        /\ strRes = Partial <=> bytRes = Partial
        /\ strRes.tag = "Complete" =>
            bytRes = Held(Complete(as_bytes(Unpack(strRes.val))))
        /\ strRes.tag \notin {"Partial", "Complete"} =>
            \/ strRes = Err("Utf8") /\ bytRes.tag = "Complete"
            \/ strRes = bytRes

\* both decoders completed on a payload with a multi-byte sequence
C10_Witness ==
    /\ strRes.tag = "Complete" /\ bytRes.tag = "Complete"
    /\ Len(Unpack(strRes.val)) > 0
    /\ Len(Unpack(strRes.val)) < Len(Unpack(bytRes.val))

====
